---- MODULE Spec2Model ----
(***************************************************************************)
(* Model of app.py: the weather enrichment workflow build_weather_table    *)
(* (metadata lookup, weather fetch, combine, LLM classification, batch     *)
(* persist) and the SQLite table weather_insights behind save_to_database  *)
(* and load_from_database.                                                 *)
(*                                                                         *)
(* Python's None is the empty tuple None; an optional scalar v is <<v>>.   *)
(* Numbers are integers in thousandths (21504 is 21.504).  A text made of  *)
(* words and whitespace (an LLM completion) is the sequence of its chunks. *)
(* An ISO timestamp text is the sequence of its numeric parts, compared    *)
(* lexicographically as SQLite compares TEXT.                              *)
(***************************************************************************)
EXTENDS Integers, Sequences, FiniteSets, TLC

VARIABLES
    cities,         \* argument of build_weather_table
    i,              \* position of the for loop in cities (1-based)
    metadata,       \* local: result of fetch_city_metadata
    weather_data,   \* local: result of fetch_weather_data
    combined,       \* local: result of clean_and_combine_data
    records,        \* local: accumulated list of dicts
    pc,             \* statement build_weather_table is at
    df,             \* value returned by build_weather_table
    raised,         \* exception propagating out of build_weather_table
    messages,       \* st.warning / st.error / st.success calls, in order
    store,          \* rows of table weather_insights, in insertion order
    save_outcome,   \* how the last save_to_database call ended
    historical_df,  \* value last returned by load_from_database
    load_limit,     \* limit of the last load_from_database call (-1: none)
    history         \* per city begun: what its stages did (history variable)

vars == <<cities, i, metadata, weather_data, combined, records, pc, df, raised,
          messages, store, save_outcome, historical_df, load_limit, history>>

locals == <<metadata, weather_data, combined, records>>

None == <<>>

\* ---------------------------------------------------------------- bounds
MaxCities == 2
MaxBatch == 2

\* ---------------------------------------------------------------- inputs
\* City names the user may type.
CityNames == {"PARIS", "Oslo", "Atlantis"}

CityLists == UNION {[1..n -> CityNames] : n \in 1..MaxCities}

\* str.lower() on the names that occur.
Lower(s) ==
    CASE s = "PARIS" -> "paris"
      [] s = "Paris" -> "paris"
      [] s = "Oslo" -> "oslo"
      [] s = "Atlantis" -> "atlantis"
      [] OTHER -> s

\* data/cities_metadata.csv as read by pd.read_csv: one row has a population,
\* one has an empty population cell, which pandas reads as NaN: a missing
\* value, written None here (pd.notna(x) is x # None).
cities_metadata_csv ==
    << [city |-> "Paris", country |-> <<"FR">>, population |-> <<2148000>>],
       [city |-> "Oslo", country |-> <<"NO">>, population |-> None] >>

\* A 200 answer with the complete payload.
CompleteResponse ==
    [kind |-> "response", status_code |-> 200,
     body |-> <<[main |-> [temp |-> <<21504>>, humidity |-> <<60000>>],
                 wind |-> [speed |-> <<3126>>],
                 weather |-> <<[description |-> "light rain"]>>]>>]

\* What requests.get can do: raise, or answer with a status and a JSON body.
HttpOutcomes ==
    { [kind |-> "exception", status_code |-> 0, body |-> None],
      [kind |-> "response", status_code |-> 404, body |-> None],
      CompleteResponse,
      \* payload without the "wind" key
      [kind |-> "response", status_code |-> 200,
       body |-> <<[main |-> [temp |-> <<21504>>, humidity |-> <<60000>>],
                   weather |-> <<[description |-> "light rain"]>>]>>],
      \* payload whose main.temp is JSON null
      [kind |-> "response", status_code |-> 200,
       body |-> <<[main |-> [temp |-> None, humidity |-> <<60000>>],
                   wind |-> [speed |-> <<3126>>],
                   weather |-> <<[description |-> "light rain"]>>]>>] }

\* What client.chat.completions.create can do: raise, or answer with a
\* message content (a text, or null).
LlmOutcomes ==
    { [kind |-> "exception", content |-> None],
      [kind |-> "response", content |-> None],
      [kind |-> "response", content |-> << <<" ", "Rainy", "\n">> >>],
      [kind |-> "response", content |-> << <<"Drizzle">> >>],
      [kind |-> "response", content |-> << <<"Rainy", " ", "day">> >>] }

\* Instants datetime.now() may return: <<second, microsecond>>.  The wall
\* clock is not monotonic and may repeat a value.
Instants == {<<1, 0>>, <<1, 1>>, <<2, 0>>}

\* Values of the limit parameter of load_from_database (the slider offers
\* 10 to 200; the function takes any).
Limits == {1, 10}

\* ------------------------------------------------------------ pure helpers
Whitespace == {" ", "\n"}

RECURSIVE lstrip(_)
lstrip(t) ==
    IF t # <<>> /\ Head(t) \in Whitespace THEN lstrip(Tail(t)) ELSE t

RECURSIVE rstrip(_)
rstrip(t) ==
    IF t # <<>> /\ t[Len(t)] \in Whitespace
    THEN rstrip(SubSeq(t, 1, Len(t) - 1))
    ELSE t

\* str.strip()
strip(t) == rstrip(lstrip(t))

valid_categories == {"Clear", "Cloudy", "Rainy", "Stormy", "Snowy", "Extreme"}

\* classify_weather without the check against valid_categories.
classify_weather_unvalidated(llm) ==
    IF llm.kind = "exception" THEN "Unknown"
    ELSE IF llm.content = None THEN "Unknown"
    ELSE LET result == strip(llm.content[1])
         IN IF result # <<>> THEN result[1] ELSE "Unknown"

\* classify_weather, given what the model call did.
classify_weather(llm) ==
    IF llm.kind = "exception" THEN "Unknown"
    ELSE IF llm.content = None THEN "Unknown"  \* None.strip() raises, caught
    ELSE LET result == strip(llm.content[1])
         IN IF Len(result) = 1 /\ result[1] \in valid_categories
            THEN result[1]
            ELSE "Unknown"

\* The messages classify_weather emits.
classify_messages(llm) ==
    IF llm.kind = "exception" \/ llm.content = None
    THEN << <<"error", "OpenAI API error", "">> >>
    ELSE <<>>

\* round(x, 2) on thousandths, ties to even.
round2(x) ==
    LET r == x % 10
        lo == x - r
    IN IF r < 5 THEN lo
       ELSE IF r > 5 THEN lo + 10
       ELSE IF (lo \div 10) % 2 = 0 THEN lo ELSE lo + 10

\* datetime.isoformat(): the microsecond part is left out when it is zero.
isoformat(t) == IF t[2] = 0 THEN <<t[1]>> ELSE <<t[1], t[2]>>

\* Text comparison a <= b of two timestamp texts.
TextLeq(a, b) ==
    \/ /\ Len(a) <= Len(b)
       /\ \A k \in 1..Len(a) : a[k] = b[k]
    \/ \E k \in 1..Len(a) :
          /\ k <= Len(b)
          /\ a[k] < b[k]
          /\ \A j \in 1..(k - 1) : a[j] = b[j]

\* fetch_city_metadata, given whether pd.read_csv succeeds.
fetch_city_metadata(city_name, csv_ok) ==
    IF ~csv_ok THEN None
    ELSE LET hits == {k \in 1..Len(cities_metadata_csv) :
                        Lower(cities_metadata_csv[k].city) = Lower(city_name)}
         IN IF hits # {}
            THEN <<cities_metadata_csv[CHOOSE k \in hits : \A j \in hits : k <= j]>>
            ELSE None

fetch_city_metadata_messages(city_name, csv_ok) ==
    IF csv_ok THEN <<>>
    ELSE << <<"warning", "Could not load city metadata", city_name>> >>

\* fetch_weather_data, given what requests.get did.
fetch_weather_data(http) ==
    IF http.kind = "exception" THEN None
    ELSE IF http.status_code # 200 THEN None
    ELSE LET data == http.body[1]
         IN IF /\ "main" \in DOMAIN data
               /\ "wind" \in DOMAIN data
               /\ "weather" \in DOMAIN data
            THEN << [temperature |-> data.main.temp,
                     humidity |-> data.main.humidity,
                     wind_speed |-> data.wind.speed],
                    data.weather[1].description >>
            ELSE None  \* KeyError, caught

fetch_weather_data_messages(city_name, http) ==
    IF http.kind = "exception"
    THEN << <<"warning", "Error fetching weather", city_name>> >>
    ELSE IF http.status_code # 200
    THEN << <<"warning", "Failed to fetch weather", city_name>> >>
    ELSE IF fetch_weather_data(http) = None
    THEN << <<"warning", "Error fetching weather", city_name>> >>
    ELSE <<>>

\* Whether clean_and_combine_data raises: round() of a value that is no number.
combine_raises(wd) ==
    /\ wd # None
    /\ \/ wd[1].temperature = None
       \/ wd[1].humidity = None
       \/ wd[1].wind_speed = None

\* clean_and_combine_data, where it does not raise.
clean_and_combine_data(city_name, md, wd, now) ==
    IF wd = None THEN None
    ELSE << [city |-> city_name,
             country |-> IF md # None THEN md[1].country ELSE None,
             population |-> IF md # None /\ md[1].population # None
                            THEN md[1].population
                            ELSE None,
             temperature |-> round2(wd[1].temperature[1]),
             humidity |-> round2(wd[1].humidity[1]),
             wind_speed |-> round2(wd[1].wind_speed[1]),
             description |-> wd[2],
             timestamp |-> isoformat(now)] >>

\* combined["ai_category"] = ...
with_category(rec, category) ==
    [city |-> rec.city, country |-> rec.country, population |-> rec.population,
     temperature |-> rec.temperature, humidity |-> rec.humidity,
     wind_speed |-> rec.wind_speed, description |-> rec.description,
     timestamp |-> rec.timestamp, ai_category |-> category]

\* ------------------------------------------------------------------ store
\* A DataFrame is the sequence of its rows.  DataFrame.to_sql(if_exists =
\* "append", index = False) inserts the rows in order; the table gives each
\* the next AUTOINCREMENT id (no row is ever deleted, so that is the row count
\* plus one).
to_sql(table, frame) ==
    [k \in 1..Len(frame) |->
        [id |-> Len(table) + k,
         city |-> frame[k].city, country |-> frame[k].country,
         population |-> frame[k].population,
         temperature |-> frame[k].temperature, humidity |-> frame[k].humidity,
         wind_speed |-> frame[k].wind_speed,
         description |-> frame[k].description,
         ai_category |-> frame[k].ai_category,
         timestamp |-> frame[k].timestamp]]

\* UNIQUE(city, timestamp) over a sequence of rows.
unique_city_timestamp(rows) ==
    \A a, b \in 1..Len(rows) :
        (rows[a].city = rows[b].city /\ rows[a].timestamp = rows[b].timestamp)
            => a = b

\* save_outcome_of for a table created without the UNIQUE constraint.
save_outcome_of_no_unique(table, frame, db_ok) ==
    IF ~db_ok THEN "OperationalError" ELSE "ok"

\* How save_to_database(frame) ends: the connection or the insert may fail
\* (OperationalError), a row may break the UNIQUE constraint (IntegrityError).
save_outcome_of(table, frame, db_ok) ==
    IF ~db_ok THEN "OperationalError"
    ELSE IF ~unique_city_timestamp(table \o to_sql(table, frame))
    THEN "IntegrityError"
    ELSE "ok"

\* save_to_database as INSERT OR REPLACE: a conflicting row takes the place of
\* the stored one.
save_to_database_replace(table, frame, db_ok) ==
    IF ~db_ok THEN table
    ELSE LET new == to_sql(table, frame)
             kept == {k \in 1..Len(table) :
                        \A j \in 1..Len(new) :
                            ~(new[j].city = table[k].city
                              /\ new[j].timestamp = table[k].timestamp)}
         IN IF kept = 1..Len(table) THEN table \o new ELSE new

\* The table after save_to_database(frame): the insert is one transaction,
\* rolled back as a whole when it fails.
save_to_database(table, frame, db_ok) ==
    IF save_outcome_of(table, frame, db_ok) = "ok"
    THEN table \o to_sql(table, frame)
    ELSE table

\* ORDER BY timestamp DESC over a sequence of rows.
ordered_by_timestamp_desc(rows) ==
    \A k \in 1..(Len(rows) - 1) :
        TextLeq(rows[k + 1].timestamp, rows[k].timestamp)

Min(a, b) == IF a <= b THEN a ELSE b

\* load_from_database with ORDER BY timestamp ASC.
load_from_database_asc(table, limit) ==
    LET n == Len(table)
        perms == {p \in [1..n -> 1..n] : \A a, b \in 1..n : p[a] = p[b] => a = b}
        sorted == {p \in perms :
                     \A k \in 1..(n - 1) :
                         TextLeq(table[p[k]].timestamp, table[p[k + 1]].timestamp)}
    IN {[k \in 1..Min(limit, n) |-> table[p[k]]] : p \in sorted}

\* The results load_from_database(limit) may return: the first limit rows of
\* the table in some order that is descending by timestamp (rows with equal
\* timestamps come in an unspecified order).
load_from_database(table, limit) ==
    LET n == Len(table)
        perms == {p \in [1..n -> 1..n] : \A a, b \in 1..n : p[a] = p[b] => a = b}
        sorted == {p \in perms : ordered_by_timestamp_desc([k \in 1..n |-> table[p[k]]])}
    IN {[k \in 1..Min(limit, n) |-> table[p[k]]] : p \in sorted}

\* ------------------------------------------------- build_weather_table
\* Where the for loop goes after the body ends for city number k.
next_city(k) == IF k + 1 <= Len(cities) THEN "metadata" ELSE "persist"

\* A click on "Run Workflow" reruns the script, whose variables start afresh,
\* and the button handler calls build_weather_table(cs) with a non-empty list.
StartRun ==
    /\ pc = "idle"
    /\ \E cs \in CityLists :
          /\ cities' = cs
          /\ i' = 1
          /\ records' = <<>>
          /\ pc' = "metadata"
    /\ historical_df' = <<>>
    /\ load_limit' = -1
    /\ UNCHANGED <<metadata, weather_data, combined, df, raised, messages,
                   store, save_outcome, history>>

\* metadata = fetch_city_metadata(city)
FetchMetadata ==
    /\ pc = "metadata"
    /\ \E csv_ok \in BOOLEAN :
          /\ metadata' = fetch_city_metadata(cities[i], csv_ok)
          /\ messages' = messages \o fetch_city_metadata_messages(cities[i], csv_ok)
          /\ history' = Append(history,
                [city |-> cities[i],
                 metadata |-> IF metadata' = None THEN "absent" ELSE "found",
                 weather |-> "pending", llm |-> "pending"])
    /\ pc' = "weather"
    /\ UNCHANGED <<cities, i, weather_data, combined, records, df, raised,
                   store, save_outcome, historical_df, load_limit>>

\* after_fetch_weather without "if not weather_data: continue".
after_fetch_weather_no_skip(wd, k) == "combine"

\* Where control goes after weather_data = fetch_weather_data(city):
\* "if not weather_data: continue".
after_fetch_weather(wd, k) == IF wd = None THEN next_city(k) ELSE "combine"

FetchWeather ==
    /\ pc = "weather"
    /\ \E http \in HttpOutcomes :
          /\ weather_data' = fetch_weather_data(http)
          /\ messages' = messages \o fetch_weather_data_messages(cities[i], http)
          /\ pc' = after_fetch_weather(fetch_weather_data(http), i)
          /\ i' = IF pc' = "combine" THEN i ELSE i + 1
          /\ history' = [history EXCEPT ![i].weather =
                IF weather_data' = None THEN "failed" ELSE "ok"]
    /\ UNCHANGED <<cities, metadata, combined, records, df, raised,
                   store, save_outcome, historical_df, load_limit>>

\* combined = clean_and_combine_data(city, metadata, weather_data), called
\* outside any try: an exception of round() leaves build_weather_table.
Combine ==
    /\ pc = "combine"
    /\ IF combine_raises(weather_data)
       THEN /\ raised' = <<"TypeError">>
            /\ pc' = "raised"
            /\ UNCHANGED <<combined, i>>
       ELSE \E now \in Instants :
              /\ combined' = clean_and_combine_data(cities[i], metadata,
                                                    weather_data, now)
              /\ pc' = IF combined' = None THEN next_city(i) ELSE "classify"
              /\ i' = IF combined' = None THEN i + 1 ELSE i
              /\ UNCHANGED raised
    /\ UNCHANGED <<cities, metadata, weather_data, records, df, messages,
                   store, save_outcome, historical_df, load_limit, history>>

\* combined["ai_category"] = classify_weather(...); records.append(combined)
Classify ==
    /\ pc = "classify"
    /\ \E llm \in LlmOutcomes :
          /\ combined' = <<with_category(combined[1], classify_weather(llm))>>
          /\ records' = Append(records, combined'[1])
          /\ messages' = messages \o classify_messages(llm)
          /\ history' = [history EXCEPT ![i].llm =
                IF classify_messages(llm) # <<>> THEN "failed" ELSE "ok"]
    /\ pc' = next_city(i)
    /\ i' = i + 1
    /\ UNCHANGED <<cities, metadata, weather_data, df, raised,
                   store, save_outcome, historical_df, load_limit>>

\* if not records: return pd.DataFrame()
ReturnEmpty ==
    /\ pc = "persist"
    /\ records = <<>>
    /\ df' = <<>>
    /\ pc' = "done"
    /\ UNCHANGED <<cities, i, locals, raised, messages,
                   store, save_outcome, historical_df, load_limit, history>>

\* after_save without the try/except around save_to_database.
after_save_uncaught(o) ==
    IF o = "ok"
    THEN [pc |-> "return", raised |-> None,
          messages |-> << <<"success", "Saved records to database", "">> >>]
    ELSE [pc |-> "raised", raised |-> <<o>>, messages |-> <<>>]

\* What build_weather_table does when save_to_database ended with outcome o.
after_save(o) ==
    IF o = "ok"
    THEN [pc |-> "return", raised |-> None,
          messages |-> << <<"success", "Saved records to database", "">> >>]
    ELSE [pc |-> "return", raised |-> None,
          messages |-> << <<"warning", "Could not save to database", "">> >>]

\* Persist without the call of save_to_database.
Persist_no_save ==
    /\ pc = "persist"
    /\ records # <<>>
    /\ df' = records
    /\ pc' = "return"
    /\ UNCHANGED <<cities, i, locals, raised, messages, store, save_outcome,
                   historical_df, load_limit, history>>

\* df = pd.DataFrame(records); try: save_to_database(df) ... except ...
Persist ==
    /\ pc = "persist"
    /\ records # <<>>
    /\ df' = records
    /\ \E db_ok \in BOOLEAN :
          /\ save_outcome' = save_outcome_of(store, df', db_ok)
          /\ store' = save_to_database(store, df', db_ok)
    /\ pc' = after_save(save_outcome').pc
    /\ raised' = after_save(save_outcome').raised
    /\ messages' = messages \o after_save(save_outcome').messages
    /\ UNCHANGED <<cities, i, locals, historical_df, load_limit, history>>

\* return df
Return ==
    /\ pc = "return"
    /\ pc' = "done"
    /\ UNCHANGED <<cities, i, locals, df, raised, messages,
                   store, save_outcome, historical_df, load_limit, history>>

\* The "View History" tab, run by the script after the button handler (or
\* without it): historical_df = load_from_database(limit = limit).
Load ==
    /\ pc \in {"idle", "done"}
    /\ \E limit \in Limits :
          /\ load_limit' = limit
          /\ historical_df' \in load_from_database(store, limit)
    /\ pc' = IF pc = "done" THEN "shown" ELSE pc
    /\ UNCHANGED <<cities, i, locals, df, raised, messages, store, save_outcome,
                   history>>

\* The script has run init_database() on a fresh database file.
Init ==
    /\ cities = <<>>
    /\ i = 0
    /\ metadata = None
    /\ weather_data = None
    /\ combined = None
    /\ records = <<>>
    /\ pc = "idle"
    /\ df = <<>>
    /\ raised = None
    /\ messages = <<>>
    /\ store = <<>>
    /\ save_outcome = "none"
    /\ historical_df = <<>>
    /\ load_limit = -1
    /\ history = <<>>

Next ==
    \/ StartRun
    \/ FetchMetadata
    \/ FetchWeather
    \/ Combine
    \/ Classify
    \/ ReturnEmpty
    \/ Persist
    \/ Return
    \/ Load

Spec == Init /\ [][Next]_vars

\* ------------------------------------------------------ the table alone
\* Records the workflow produces for a few (city, instant) pairs, one of the
\* pairs with two different classifications.
StoreRecords ==
    LET failed == [kind |-> "exception", content |-> None]
        rainy == [kind |-> "response", content |-> << <<" ", "Rainy", "\n">> >>]
    IN { with_category(
             clean_and_combine_data(key[1], fetch_city_metadata(key[1], TRUE),
                 fetch_weather_data(CompleteResponse), key[2])[1],
             classify_weather(key[3])) :
           key \in {<<"PARIS", <<1, 0>>, failed>>, <<"PARIS", <<1, 0>>, rainy>>,
                    <<"PARIS", <<1, 1>>, rainy>>, <<"PARIS", <<2, 0>>, rainy>>,
                    <<"Atlantis", <<1, 0>>, rainy>>} }

Frames == UNION {[1..n -> StoreRecords] : n \in 1..MaxBatch}

\* One run of the script that reaches save_to_database(frame) with the frame
\* its workflow built, over whatever earlier runs have stored.
SaveFrame ==
    /\ pc = "idle"
    /\ \E frame \in Frames, db_ok \in BOOLEAN :
          /\ save_outcome' = save_outcome_of(store, frame, db_ok)
          /\ store' = save_to_database(store, frame, db_ok)
    /\ historical_df' = <<>>
    /\ load_limit' = -1
    /\ UNCHANGED <<cities, i, locals, pc, df, raised, messages, history>>

StoreNext ==
    \/ SaveFrame
    \/ Load

StoreSpec == Init /\ [][StoreNext]_vars

\* =============================================================== claims
Categories == valid_categories \cup {"Unknown"}

Returned == pc \in {"done", "shown"}

Ended == pc \in {"persist", "return", "done", "shown", "raised"}

\* The body of the loop is over for city number k.
Finished(k) == k < i \/ Ended

\* The nine columns of a stored row, without the id.
Fields(row) ==
    [city |-> row.city, country |-> row.country, population |-> row.population,
     temperature |-> row.temperature, humidity |-> row.humidity,
     wind_speed |-> row.wind_speed, description |-> row.description,
     timestamp |-> row.timestamp, ai_category |-> row.ai_category]

\* Number of cities up to number k whose weather fetch succeeded: the place
\* of city k's record in the result.
RecIndex(k) == Cardinality({j \in 1..k : history[j].weather = "ok"})

\* C1: every record of the result of build_weather_table has ai_category among
\* Clear, Cloudy, Rainy, Stormy, Snowy, Extreme, Unknown, whatever the model
\* answered (and the same holds of the records accumulated so far).
C1_CategoryInEnumeration ==
    /\ \A k \in 1..Len(records) : records[k].ai_category \in Categories
    /\ Returned => \A k \in 1..Len(df) : df[k].ai_category \in Categories

\* A result with a valid category and with Unknown for an answer that was no
\* failure (no error was reported): the model answered another word.
C1_Witness ==
    /\ pc = "done"
    /\ \E a, b \in 1..Len(df) :
          df[a].ai_category = "Rainy" /\ df[b].ai_category = "Unknown"
    /\ \A m \in 1..Len(messages) : messages[m][1] # "error"

\* C2: build_weather_table never raises, and when it has returned, the cities
\* of the result are the input cities whose weather fetch succeeded, in input
\* order.
C2_ReturnsFetchedCitiesInOrder ==
    /\ raised = None
    /\ pc # "raised"
    /\ Returned =>
          /\ Len(history) = Len(cities)
          /\ Len(df) = RecIndex(Len(cities))
          /\ \A k \in 1..Len(cities) :
                history[k].weather = "ok" => df[RecIndex(k)].city = cities[k]

\* C3 as stated: whenever build_weather_table has returned, a batch append
\* was attempted, also for an empty result.
C3_AppendAlwaysAttempted ==
    Returned => save_outcome # "none"

\* C3 amended: at the return statement and after it, a batch append has been
\* attempted exactly when the accumulated result is not empty, it was handed
\* the accumulated records (a successful one has stored exactly them), and the
\* result is those records.
C3_AppendAttemptedIffNonEmpty ==
    pc \in {"return", "done", "shown"} =>
        /\ (save_outcome # "none") <=> (records # <<>>)
        /\ df = records
        /\ save_outcome = "ok" => store = to_sql(<<>>, records)
        /\ save_outcome # "ok" => store = <<>>

\* A run that returned two records after a successful append.
C3_Witness ==
    /\ pc = "done"
    /\ Len(df) = 2
    /\ save_outcome = "ok"
    /\ Len(store) = 2

\* C4: no two stored rows share (city, timestamp); an append of a record whose
\* (city, timestamp) is stored already leaves the one row.
C4_UniqueCityTimestamp ==
    /\ unique_city_timestamp(store)
    /\ \A a, b \in 1..Len(store) : store[a].id = store[b].id => a = b

\* An append was rejected for a conflict and the table holds rows.
C4_Witness ==
    /\ save_outcome = "IntegrityError"
    /\ store # <<>>

\* C5: when the batch append failed, build_weather_table does not raise: it
\* goes on to the return statement, has reported the failure as a warning,
\* and returns the accumulated records, as after a successful append.
C5_AppendFailureNotFatal ==
    /\ save_outcome \notin {"none", "ok"} =>
          /\ pc \in {"return", "done", "shown"}
          /\ raised = None
          /\ messages # <<>>
          /\ messages[Len(messages)] = <<"warning", "Could not save to database", "">>
    /\ (save_outcome # "none" /\ Returned) => (df = records /\ df # <<>>)

\* A run has returned its record after the store was unavailable.
C5_Witness ==
    /\ pc = "done"
    /\ save_outcome = "OperationalError"
    /\ Len(df) >= 1

\* C6: after a successful append, load_from_database with a limit of at least
\* the number of stored rows returns, for every appended record, a row with
\* the same nine field values; and whatever the limit, the rows returned are
\* in descending order of timestamp.
C6_RoundTrip ==
    pc = "shown" =>
        /\ ordered_by_timestamp_desc(historical_df)
        /\ (save_outcome = "ok" /\ load_limit >= Len(store)) =>
              \A k \in 1..Len(df) :
                  \E j \in 1..Len(historical_df) : Fields(historical_df[j]) = df[k]

\* Two records with different timestamps were appended and loaded back.
C6_Witness ==
    /\ pc = "shown"
    /\ save_outcome = "ok"
    /\ load_limit >= Len(store)
    /\ Len(df) = 2
    /\ df[1].timestamp # df[2].timestamp
    /\ Len(historical_df) = 2

\* C7: a city whose weather fetch succeeded and whose metadata lookup returned
\* absent has a record with country and population absent, and the cities
\* after it are processed too.
C7_AbsentMetadataStillRecorded ==
    \A k \in 1..Len(history) :
        (history[k].metadata = "absent" /\ history[k].weather = "ok" /\ Finished(k)) =>
            /\ RecIndex(k) <= Len(records)
            /\ records[RecIndex(k)].city = cities[k]
            /\ records[RecIndex(k)].country = None
            /\ records[RecIndex(k)].population = None
            /\ Ended =>
                  /\ Len(history) = Len(cities)
                  /\ \A j \in (k + 1)..Len(cities) :
                        /\ history[j].weather # "pending"
                        /\ history[j].weather = "ok" => history[j].llm # "pending"

\* C8: a city whose classification failed has a record with ai_category
\* Unknown, and the cities after it are fetched, combined and classified.
C8_LlmFailureStillRecorded ==
    \A k \in 1..Len(history) :
        history[k].llm = "failed" =>
            /\ RecIndex(k) <= Len(records)
            /\ records[RecIndex(k)].city = cities[k]
            /\ records[RecIndex(k)].ai_category = "Unknown"
            /\ Ended =>
                  /\ Len(history) = Len(cities)
                  /\ \A j \in (k + 1)..Len(cities) :
                        /\ history[j].weather # "pending"
                        /\ history[j].weather = "ok" => history[j].llm # "pending"

\* C9: a stored row is never changed or removed: every step leaves the rows
\* stored before it in place with their values, and a step of
\* load_from_database leaves the table as it is.
C9_AppendOnly ==
    [][/\ Len(store') >= Len(store)
       /\ \A k \in 1..Len(store) : store'[k] = store[k]
       /\ load_limit' # -1 => store' = store]_vars

\* A conflicting append was attempted on a table of two rows, which were then
\* loaded.
C9_Witness ==
    /\ save_outcome = "IntegrityError"
    /\ Len(store) = 2
    /\ load_limit = 10
    /\ Len(historical_df) = 2

\* C10: cities are taken one at a time in input order, the stages of a city
\* come in the order metadata lookup, weather fetch, combine, classify,
\* accumulate, combine and classify run only for a city whose weather fetch
\* succeeded, and the batch persist comes after the last city's stages.
C10_StageOrder ==
    [][/\ pc # "idle" => (i' = i \/ i' = i + 1)
       /\ pc' = "metadata" =>
             /\ pc \in {"idle", "weather", "combine", "classify"}
             /\ i' <= Len(cities')
             /\ Len(history') = i' - 1
             /\ \A k \in 1..Len(history') :
                   /\ history'[k].city = cities'[k]
                   /\ history'[k].weather # "pending"
                   /\ history'[k].weather = "ok" => history'[k].llm # "pending"
       /\ pc' = "weather" => (pc = "metadata" /\ i' = i /\ Len(history') = i)
       /\ pc' = "combine" =>
             /\ pc = "weather"
             /\ i' = i
             /\ weather_data' # None
             /\ history'[i].weather = "ok"
       /\ pc' = "classify" =>
             /\ pc = "combine"
             /\ i' = i
             /\ weather_data # None
             /\ history[i].weather = "ok"
       /\ records' # records =>
             /\ pc = "classify"
             /\ records' = Append(records, combined'[1])
             /\ combined'[1].city = cities[i]
             /\ history[i].weather = "ok"
       /\ pc' = "persist" =>
             /\ pc \in {"weather", "combine", "classify"}
             /\ i' = Len(cities) + 1
             /\ Len(history') = Len(cities)
             /\ \A k \in 1..Len(cities) :
                   /\ history'[k].weather # "pending"
                   /\ history'[k].weather = "ok" => history'[k].llm # "pending"
       /\ (store' # store \/ save_outcome' # save_outcome) => pc = "persist"]_vars

\* A run of two cities, the first skipped for a failed fetch and the second
\* recorded, has reached the persist step.
C10_Witness ==
    /\ pc = "persist"
    /\ Len(cities) = 2
    /\ history[1].weather = "failed"
    /\ history[2].llm = "ok"
    /\ Len(records) = 1

====
